---------------------------- MODULE Spec2Model ----------------------------
(***************************************************************************)
(* Model of the Black Swan analysis engine of                              *)
(* src/src/components/BlackSwanCube.ts: sourceCandidates, extractSignals,  *)
(* clusterSignals, calculateCentrality, calculateMartingaleRisk,           *)
(* bayesianUpdate, generateHypothesis and analyzeBlackSwans.               *)
(*                                                                         *)
(* Numbers.  The code computes in IEEE doubles.  The model computes in     *)
(* fixed point: every JavaScript number that is not a count (severity,     *)
(* probability, impact, change, magnitude, price, risk, momentum, score)   *)
(* is an integer number of thousandths (SCALE), and a product or quotient  *)
(* truncates to a thousandth.  Centrality weights are integers in units    *)
(* of 1/CSCALE.  Counts (array lengths, iteration numbers) and timestamps  *)
(* (milliseconds) are plain integers.                                      *)
(*                                                                         *)
(* Objects.  A JavaScript object with an optional field is a record whose  *)
(* domain may lack the field; an optional value (location, the result of   *)
(* Array.find, clusterId) is a sequence of length 0 or 1, <<>> being       *)
(* undefined.  Signals are objects shared between the signal array and     *)
(* the narratives: heap maps an object handle to the signal's fields, and  *)
(* arrays hold handles.                                                    *)
(***************************************************************************)
EXTENDS Integers, Sequences, FiniteSets, TLC

VARIABLES
    pc,          \* position in analyzeBlackSwans / in the function under test
    rawData,     \* the DataSnapshot argument of analyzeBlackSwans
    data,        \* const data = sourceCandidates(rawData)
    now,         \* the value new Date() returned in extractSignals
    heap,        \* signal objects: handle -> fields
    signals,     \* let signals: array of handles
    narratives,  \* const narratives: array of RiskNarrative
    analysis,    \* the returned BlackSwanAnalysis (<<>> until returned)
    entry,       \* what was handed to the function under test
    result,      \* what the function under test returned
    instance     \* a BlackSwanCube with the listeners of its container and of window

vars == <<pc, rawData, data, now, heap, signals, narratives, analysis, entry, result,
          instance>>

-----------------------------------------------------------------------------
(* Fixed-point arithmetic *)

SCALE == 10 * 10 * 10
CSCALE == SCALE * SCALE * 10

R(n) == n * SCALE

Abs(x) == IF x < 0 THEN -x ELSE x

Min(a, b) == IF a < b THEN a ELSE b

Max(a, b) == IF a > b THEN a ELSE b

\* a * b of two fixed-point numbers
FMul(a, b) == (a * b) \div SCALE

\* a / b of two fixed-point numbers
FDiv(a, b) == (a * SCALE) \div b

\* floor(a * b / c) for a, b >= 0 and c > 0, with no intermediate above
\* 16 * c + 15 * a: the product is taken one base-16 digit of b at a time.
RECURSIVE MulDivQR(_, _, _)
MulDivQR(a, b, c) ==
    IF b = 0 THEN <<0, 0>>
    ELSE LET qr == MulDivQR(a, b \div 16, c)
             t  == 16 * qr[2] + a * (b % 16)
         IN  <<16 * qr[1] + (t \div c), t % c>>

MulDiv(a, b, c) == MulDivQR(a, b, c)[1]

RECURSIVE SumSeq(_)
SumSeq(s) == IF s = <<>> THEN 0 ELSE Head(s) + SumSeq(Tail(s))

RECURSIVE MaxSeq(_)
MaxSeq(s) == IF Len(s) = 1 THEN s[1] ELSE Max(Head(s), MaxSeq(Tail(s)))

Map(s, F(_)) == [i \in 1..Len(s) |-> F(s[i])]

Count(s, P(_)) == Len(SelectSeq(s, P))

\* Array.prototype.find: the first element satisfying P, or undefined
Find(s, P(_)) ==
    LET hits == SelectSeq(s, P) IN IF hits = <<>> THEN <<>> ELSE <<hits[1]>>

Has(o, f) == f \in DOMAIN o

\* o.f || 0 for a numeric field
OrZero(o, f) == IF Has(o, f) THEN o[f] ELSE 0

\* (x?.f || 0) for x the result of Find
OptOrZero(x, f) == IF x = <<>> THEN 0 ELSE OrZero(x[1], f)

\* s.toLowerCase().includes('violence') over the strings of the model
IncludesViolence(s) ==
    s \in {"Violence against civilians", "riot; mob VIOLENCE reported", "violence"}


-----------------------------------------------------------------------------
(* The snapshot's categories *)

Categories ==
    {"markets", "sectors", "commodities", "crypto", "economic", "predictions",
     "earthquakes", "protests", "outages", "vessels", "flights", "weather",
     "news", "alertCounts"}

\* the categories sourceCandidates calls .filter on
FilteredCategories == {"markets", "earthquakes", "protests", "outages", "predictions"}

\* the categories extractSignals dereferences (.length, .filter, .find, .reduce, .map)
ExtractedCategories == Categories \ {"news"}

-----------------------------------------------------------------------------
(* sourceCandidates *)

KeepMarket(m) == Abs(OrZero(m, "change")) > 500

\* mutant of KeepEarthquake: the comparison with 3.0 is inclusive
KeepEarthquakeInclusive(e) == Has(e, "magnitude") /\ e.magnitude >= 3000

KeepEarthquake(e) == Has(e, "magnitude") /\ e.magnitude > 3000

KeepProtest(p) ==
    \/ OrZero(p, "fatalities") > 0
    \/ Has(p, "eventType") /\ IncludesViolence(p.eventType)
    \/ Has(p, "summary") /\ IncludesViolence(p.summary)

KeepOutage(o) == ~(Has(o, "severity") /\ o.severity = "minor")

KeepPrediction(p) == Has(p, "yesPrice") /\ p.yesPrice > 50 /\ p.yesPrice < 950

\* data.<category>.filter(...) on a category that is undefined raises a TypeError
SourceThrows(raw) == \E c \in FilteredCategories : ~Has(raw, c)

sourceCandidates(raw) ==
    [c \in DOMAIN raw |->
        CASE c = "markets"     -> SelectSeq(raw[c], KeepMarket)
          [] c = "earthquakes" -> SelectSeq(raw[c], KeepEarthquake)
          [] c = "protests"    -> SelectSeq(raw[c], KeepProtest)
          [] c = "outages"     -> SelectSeq(raw[c], KeepOutage)
          [] c = "predictions" -> SelectSeq(raw[c], KeepPrediction)
          [] OTHER             -> raw[c]]

-----------------------------------------------------------------------------
(* bayesianUpdate and calculateMartingaleRisk *)

\* mutant of bayesianUpdate: the prior is left out of the numerator
bayesianUpdateNoPrior(prior, likelihood, evidence) ==
    FDiv(likelihood, Max(evidence, 1))

bayesianUpdate(prior, likelihood, evidence) ==
    FDiv(FMul(likelihood, prior), Max(evidence, 1))

\* the for loop of calculateMartingaleRisk, i running from values.length - 1
\* down to 0 (here from Len(values) down to 1)
RECURSIVE MartingaleLoop(_, _, _, _, _)
MartingaleLoop(values, i, score, multiplier, decayFactor) ==
    IF i = 0 THEN score
    ELSE LET val    == values[i]
             score2 == score + FMul(val, multiplier)
             shock  == IF val > R(50) THEN FMul(multiplier, 1200) ELSE multiplier
         IN  MartingaleLoop(values, i - 1, score2, FMul(shock, decayFactor), decayFactor)

\* mutant of calculateMartingaleRisk: the values are read first to last
RECURSIVE MartingaleLoopForward(_, _, _, _, _)
MartingaleLoopForward(values, i, score, multiplier, decayFactor) ==
    IF i > Len(values) THEN score
    ELSE LET val   == values[i]
             shock == IF val > R(50) THEN FMul(multiplier, 1200) ELSE multiplier
         IN  MartingaleLoopForward(values, i + 1, score + FMul(val, multiplier),
                                   FMul(shock, decayFactor), decayFactor)

calculateMartingaleRiskForward(values, decayFactor) ==
    IF Len(values) = 0 THEN 0
    ELSE Min(MartingaleLoopForward(values, 1, 0, R(1), decayFactor), R(100))

calculateMartingaleRisk(values, decayFactor) ==
    IF Len(values) = 0 THEN 0
    ELSE Min(MartingaleLoop(values, Len(values), 0, R(1), decayFactor), R(100))

DefaultDecay == 950

-----------------------------------------------------------------------------
(* extractSignals *)

\* mutant of NewSignal: the rules give their signal a location
NewSignalLocated(id, type, severity, probability, impact, description, indicators, t) ==
    [id |-> id, type |-> type, severity |-> severity, probability |-> probability,
     impact |-> R(impact), centrality |-> 0, description |-> description,
     indicators |-> indicators, correlations |-> <<>>, timestamp |-> t,
     location |-> <<[name |-> "Global", lat |-> 0, lon |-> 0]>>, clusterId |-> <<>>]

NewSignal(id, type, severity, probability, impact, description, indicators, t) ==
    [id |-> id, type |-> type, severity |-> severity, probability |-> probability,
     impact |-> R(impact), centrality |-> 0, description |-> description,
     indicators |-> indicators, correlations |-> <<>>, timestamp |-> t,
     location |-> <<>>, clusterId |-> <<>>]

HighConfidence(p) == Has(p, "yesPrice") /\ p.yesPrice > 600

\* mutant of MilitaryRule: the two conditions are joined by && instead of ||
MilitaryRuleBothRequired(d, t) ==
    LET milActivity      == Len(d.vessels) * 2 + Len(d.flights) * 5
        predictionStress == Count(d.predictions, HighConfidence)
    IN  IF milActivity > 10 /\ predictionStress > 2
        THEN <<NewSignal("geopolitical-clash", "military",
                 Min(R(milActivity + predictionStress * 15), R(100)),
                 bayesianUpdate(100, IF milActivity > 30 THEN 900 ELSE 400, 200),
                 95, "Kinetic-Geopolitical Convergence",
                 [vessels |-> Len(d.vessels), flights |-> Len(d.flights),
                  predictions |-> predictionStress], t)>>
        ELSE <<>>

\* 1. Military-Geopolitical
MilitaryRule(d, t) ==
    LET milActivity      == Len(d.vessels) * 2 + Len(d.flights) * 5
        predictionStress == Count(d.predictions, HighConfidence)
    IN  IF milActivity > 10 \/ predictionStress > 2
        THEN <<NewSignal("geopolitical-clash", "military",
                 Min(R(milActivity + predictionStress * 15), R(100)),
                 bayesianUpdate(100, IF milActivity > 30 THEN 900 ELSE 400, 200),
                 95, "Kinetic-Geopolitical Convergence",
                 [vessels |-> Len(d.vessels), flights |-> Len(d.flights),
                  predictions |-> predictionStress], t)>>
        ELSE <<>>

AbsChange(m) == Abs(OrZero(m, "change"))

OutlierSector(s) == AbsChange(s) > 3000

IsVix(e) == Has(e, "id") /\ e.id = "VIXCLS"

IsYieldSpread(e) == Has(e, "id") /\ e.id = "T10Y2Y"

IsUnemployment(e) == Has(e, "id") /\ e.id = "UNRATE"

\* mutant of EconomicRule: the comparison of economicRisk with 10 is inclusive
EconomicRuleInclusive(d, t) ==
    LET marketChange     == SumSeq(Map(d.markets, AbsChange))
                              \div (IF Len(d.markets) = 0 THEN 1 ELSE Len(d.markets))
        sectorDivergence == Count(d.sectors, OutlierSector)
        vix              == Find(d.economic, IsVix)
        yieldSpread      == Find(d.economic, IsYieldSpread)
        unemployment     == Find(d.economic, IsUnemployment)
        economicRisk     == (IF OptOrZero(vix, "value") > R(25) THEN 20 ELSE 0)
                          + (IF OptOrZero(yieldSpread, "value") < 0 THEN 15 ELSE 0)
                          + (IF OptOrZero(unemployment, "change") > 200 THEN 10 ELSE 0)
    IN  IF marketChange > 1200 \/ sectorDivergence > 2 \/ economicRisk >= 10
        THEN <<NewSignal("market-fracture", "economic",
                 Min(marketChange * 25 + R(sectorDivergence * 10) + R(economicRisk), R(100)),
                 450, 85, "Economic instability",
                 [marketChange |-> marketChange, sectorDivergence |-> sectorDivergence,
                  economicRisk |-> economicRisk,
                  vix |-> IF vix # <<>> /\ Has(vix[1], "value")
                          THEN <<vix[1].value>> ELSE <<>>], t)>>
        ELSE <<>>

\* 2. Economic (Markets & FRED)
EconomicRule(d, t) ==
    LET marketChange     == SumSeq(Map(d.markets, AbsChange))
                              \div (IF Len(d.markets) = 0 THEN 1 ELSE Len(d.markets))
        sectorDivergence == Count(d.sectors, OutlierSector)
        vix              == Find(d.economic, IsVix)
        yieldSpread      == Find(d.economic, IsYieldSpread)
        unemployment     == Find(d.economic, IsUnemployment)
        economicRisk     == (IF OptOrZero(vix, "value") > R(25) THEN 20 ELSE 0)
                          + (IF OptOrZero(yieldSpread, "value") < 0 THEN 15 ELSE 0)
                          + (IF OptOrZero(unemployment, "change") > 200 THEN 10 ELSE 0)
    IN  IF marketChange > 1200 \/ sectorDivergence > 2 \/ economicRisk > 10
        THEN <<NewSignal("market-fracture", "economic",
                 Min(marketChange * 25 + R(sectorDivergence * 10) + R(economicRisk), R(100)),
                 450, 85, "Economic instability",
                 [marketChange |-> marketChange, sectorDivergence |-> sectorDivergence,
                  economicRisk |-> economicRisk,
                  vix |-> IF vix # <<>> /\ Has(vix[1], "value")
                          THEN <<vix[1].value>> ELSE <<>>], t)>>
        ELSE <<>>

IsOilSpike(c) == Has(c, "symbol") /\ c.symbol = "CL=F" /\ OrZero(c, "change") > 3000

IsGoldSpike(c) == Has(c, "symbol") /\ c.symbol = "GC=F" /\ OrZero(c, "change") > 1500

IsVolatileCrypto(c) == AbsChange(c) > R(10)

\* 3. Commodities & Crypto (Sentiment Proxies)
SentimentRule(d, t) ==
    LET oilSpike         == Find(d.commodities, IsOilSpike)
        goldSpike        == Find(d.commodities, IsGoldSpike)
        cryptoVolatility == Count(d.crypto, IsVolatileCrypto)
    IN  IF oilSpike # <<>> \/ goldSpike # <<>> \/ cryptoVolatility > 1
        THEN <<NewSignal("sentiment-shock", "economic",
                 Min(R(60 + cryptoVolatility * 5), R(100)),
                 400, 50, "Fear Index Spike",
                 [oil |-> oilSpike # <<>>, gold |-> goldSpike # <<>>,
                  cryptoVol |-> cryptoVolatility], t)>>
        ELSE <<>>

Fatalities(p) == OrZero(p, "fatalities")

TimesFive(f) == R(f * 5)

\* 4. Social
SocialRule(d, t) ==
    IF Len(d.protests) > 0
    THEN LET fatalSeries == Map(d.protests, Fatalities)
             mRisk       == calculateMartingaleRisk(Map(fatalSeries, TimesFive), DefaultDecay)
         IN  IF mRisk > R(20)
             THEN <<NewSignal("social-unrest", "social", mRisk, 550, 75,
                      "Social unrest escalation",
                      [mRisk |-> mRisk, count |-> Len(d.protests)], t)>>
             ELSE <<>>
    ELSE <<>>

Magnitude(e) == e.magnitude

\* 5. Environmental (Seismic & Weather)
EnvironmentalRule(d, t) ==
    LET magnitudes    == Map(d.earthquakes, Magnitude)
        maxMag        == IF Len(magnitudes) > 0 THEN MaxSeq(magnitudes) ELSE 0
        weatherAlerts == Len(d.weather)
    IN  IF maxMag > 5000 \/ weatherAlerts > 10
        THEN <<NewSignal("environmental-stress", "environmental",
                 Min(maxMag * 12 + R(weatherAlerts * 2), R(100)),
                 400, 70, "Natural system stress",
                 [maxMag |-> maxMag, weatherAlerts |-> weatherAlerts], t)>>
        ELSE <<>>

IsMajorOutage(o) == Has(o, "severity") /\ o.severity \in {"total", "major"}

\* 6. Infrastructure/Cyber
InfrastructureRule(d, t) ==
    LET majorOutages == SelectSeq(d.outages, IsMajorOutage)
    IN  IF Len(majorOutages) > 0
        THEN <<NewSignal("infrastructure-disruption", "infrastructure",
                 Min(R(Len(majorOutages) * 30), R(100)),
                 300, 80, "Critical infrastructure disruption",
                 [count |-> Len(majorOutages)], t)>>
        ELSE <<>>

AlertCount(c) == OrZero(c, "alertCount")

\* mutant of NarrativeRule: the threshold is inclusive
NarrativeRuleInclusive(d, t) ==
    LET totalAlerts == SumSeq(Map(d.alertCounts, AlertCount))
    IN  IF totalAlerts >= 10
        THEN <<NewSignal("narrative-stress", "geopolitical",
                 Min(R(totalAlerts * 3), R(100)),
                 200, 60, "Elevated alert keyword density",
                 [totalAlerts |-> totalAlerts], t)>>
        ELSE <<>>

\* 7. Narrative Density
NarrativeRule(d, t) ==
    LET totalAlerts == SumSeq(Map(d.alertCounts, AlertCount))
    IN  IF totalAlerts > 10
        THEN <<NewSignal("narrative-stress", "geopolitical",
                 Min(R(totalAlerts * 3), R(100)),
                 200, 60, "Elevated alert keyword density",
                 [totalAlerts |-> totalAlerts], t)>>
        ELSE <<>>

\* dereferencing a category that is undefined raises a TypeError
ExtractThrows(d) == \E c \in ExtractedCategories : ~Has(d, c)

\* mutant of extractSignals: the narrative rule is skipped when the military
\* rule has fired
extractSignalsExclusive(d, t) ==
    MilitaryRule(d, t) \o EconomicRule(d, t) \o SentimentRule(d, t) \o SocialRule(d, t)
      \o EnvironmentalRule(d, t) \o InfrastructureRule(d, t)
      \o (IF MilitaryRule(d, t) = <<>> THEN NarrativeRule(d, t) ELSE <<>>)

extractSignals(d, t) ==
    MilitaryRule(d, t) \o EconomicRule(d, t) \o SentimentRule(d, t) \o SocialRule(d, t)
      \o EnvironmentalRule(d, t) \o InfrastructureRule(d, t) \o NarrativeRule(d, t)

-----------------------------------------------------------------------------
(* Array.prototype.sort with a comparator (a, b) => key(b) - key(a) *)

\* The place (1-based) the element at index i takes when the keys are sorted
\* in descending order by a stable sort.
PlaceDesc(keys, i) ==
    1 + Cardinality({j \in 1..Len(keys) :
                        keys[j] > keys[i] \/ (keys[j] = keys[i] /\ j < i)})

\* arr sorted by descending keys[i] (keys[i] is the key of arr[i]), stable
SortDesc(arr, keys) ==
    [p \in 1..Len(arr) |-> arr[CHOOSE i \in 1..Len(arr) : PlaceDesc(keys, i) = p]]

-----------------------------------------------------------------------------
(* clusterSignals *)

RECURSIVE Dedup(_)
Dedup(s) ==
    IF s = <<>> THEN <<>>
    ELSE LET rest == Dedup(SelectSeq(Tail(s), LAMBDA x : x # Head(s)))
         IN  <<Head(s)>> \o rest

\* s.location?.name
LocationName(sig) ==
    IF sig.location = <<>> THEN <<>> ELSE <<sig.location[1].name>>

ToUpperCase(type) ==
    CASE type = "geopolitical"   -> "GEOPOLITICAL"
      [] type = "economic"       -> "ECONOMIC"
      [] type = "environmental"  -> "ENVIRONMENTAL"
      [] type = "cyber"          -> "CYBER"
      [] type = "social"         -> "SOCIAL"
      [] type = "military"       -> "MILITARY"
      [] type = "infrastructure" -> "INFRASTRUCTURE"
      [] type = "narrative"      -> "NARRATIVE"

\* cluster: the member signals' fields, in order
generateNarrativeTitle(cluster) ==
    LET types     == Dedup([i \in 1..Len(cluster) |-> cluster[i].type])
        names     == [i \in 1..Len(cluster) |-> LocationName(cluster[i])]
        locations == Dedup(SelectSeq(names, LAMBDA x : x # <<>>))
    IN  IF Len(locations) > 0
        THEN <<ToUpperCase(types[1]), " instability in ", locations[1][1]>>
        ELSE <<"Coordinated ", types, " volatility">>

HourMs == 3600000

\* mutant of Matches: the shared location is not looked at
MatchesIgnoringLocation(s, signal) ==
    \/ s.type = signal.type
    \/ Abs(s.timestamp - signal.timestamp) < HourMs

\* mutant of Matches: a distance of exactly one hour counts as within the hour
MatchesWithinHourInclusive(s, signal) ==
    \/ s.type = signal.type
    \/ LocationName(s) = LocationName(signal) /\ LocationName(signal) # <<>>
    \/ Abs(s.timestamp - signal.timestamp) <= HourMs

\* mutant of Matches: only the type is compared
MatchesByTypeOnly(s, signal) == s.type = signal.type

\* mutant of Matches: the one-hour proximity is not looked at
MatchesWithoutProximity(s, signal) ==
    \/ s.type = signal.type
    \/ LocationName(s) = LocationName(signal) /\ LocationName(signal) # <<>>

\* the filter predicate of clusterSignals: s joins the cluster of anchor signal
Matches(s, signal) ==
    \/ s.type = signal.type
    \/ LocationName(s) = LocationName(signal) /\ LocationName(signal) # <<>>
    \/ Abs(s.timestamp - signal.timestamp) < HourMs

NarrativeId(n) == <<"narrative-", n>>

\* mutant of AggregateRisk: the sum is not divided by cluster.length
AggregateRiskUndivided(h, cluster) ==
    SumSeq([i \in 1..Len(cluster) |-> FMul(h[cluster[i]].severity, h[cluster[i]].probability)])

\* cluster.reduce((sum, s) => sum + (s.severity * s.probability), 0) / cluster.length
AggregateRisk(h, cluster) ==
    SumSeq([i \in 1..Len(cluster) |-> FMul(h[cluster[i]].severity, h[cluster[i]].probability)])
        \div Len(cluster)

\* cluster.length * (aggregateRisk / 100)
Momentum(cluster, aggregateRisk) == (Len(cluster) * aggregateRisk) \div 100

\* mutant of ClusterStep: the filter does not leave out the processed signals
ClusterStepKeepProcessed(st, arr, k) ==
    LET signal  == st.heap[arr[k]]
        cluster == SelectSeq(arr, LAMBDA r : Matches(st.heap[r], signal))
        id      == NarrativeId(Len(st.narratives))
        members == {cluster[i] : i \in 1..Len(cluster)}
        aggregateRisk == AggregateRisk(st.heap, cluster)
    IN  IF signal.id \in st.processed THEN st
        ELSE [heap |-> [r \in DOMAIN st.heap |->
                          IF r \in members
                          THEN [st.heap[r] EXCEPT !.clusterId = <<id>>]
                          ELSE st.heap[r]],
              processed |-> st.processed \cup {st.heap[r].id : r \in members},
              narratives |-> Append(st.narratives,
                  [id |-> id,
                   title |-> generateNarrativeTitle(
                                [i \in 1..Len(cluster) |-> st.heap[cluster[i]]]),
                   signals |-> cluster,
                   aggregateRisk |-> aggregateRisk,
                   momentum |-> Momentum(cluster, aggregateRisk),
                   primaryDimension |-> signal.type])]

\* one iteration of the for loop of clusterSignals, st being the heap, the
\* processed ids and the narratives so far
ClusterStep(st, arr, k) ==
    LET signal  == st.heap[arr[k]]
        cluster == SelectSeq(arr, LAMBDA r :
                       st.heap[r].id \notin st.processed /\ Matches(st.heap[r], signal))
    IN  IF signal.id \in st.processed THEN st
        ELSE IF Len(cluster) >= 1
        THEN LET id      == NarrativeId(Len(st.narratives))
                 members == {cluster[i] : i \in 1..Len(cluster)}
                 aggregateRisk == AggregateRisk(st.heap, cluster)
             IN  [heap |-> [r \in DOMAIN st.heap |->
                              IF r \in members
                              THEN [st.heap[r] EXCEPT !.clusterId = <<id>>]
                              ELSE st.heap[r]],
                  processed |-> st.processed \cup {st.heap[r].id : r \in members},
                  narratives |-> Append(st.narratives,
                      [id |-> id,
                       title |-> generateNarrativeTitle(
                                    [i \in 1..Len(cluster) |-> st.heap[cluster[i]]]),
                       signals |-> cluster,
                       aggregateRisk |-> aggregateRisk,
                       momentum |-> Momentum(cluster, aggregateRisk),
                       primaryDimension |-> signal.type])]
        ELSE st

RECURSIVE ClusterLoop(_, _, _)
ClusterLoop(st, arr, k) ==
    IF k > Len(arr) THEN st ELSE ClusterLoop(ClusterStep(st, arr, k), arr, k + 1)

AggregateRiskOf(n) == n.aggregateRisk

\* return narratives.sort((a, b) => b.aggregateRisk - a.aggregateRisk)
SortNarratives(narrs) == SortDesc(narrs, Map(narrs, AggregateRiskOf))

\* returns the heap (clusterId set on the members) and the sorted narratives
clusterSignals(h, arr) ==
    CHOOSE r \in {[heap |-> st.heap, narratives |-> SortNarratives(st.narratives)] :
                    st \in {ClusterLoop([heap |-> h, processed |-> {},
                                         narratives |-> <<>>], arr, 1)}} : TRUE

-----------------------------------------------------------------------------
(* calculateCentrality *)

Iterations == 5

\* dampening = 0.85, in units of 1/CSCALE
Dampening == 85 * (CSCALE \div 100)

\* mutant of IsRelated: the shared narrative is not looked at
IsRelatedByTypeOnly(a, b) == a.type = b.type

IsRelated(a, b) == a.type = b.type \/ a.clusterId = b.clusterId

\* dampening * weights[i] * (signals[i].severity / 100), for every i
Flow(h, arr, weights) ==
    [i \in 1..Len(arr) |->
        MulDiv(MulDiv(weights[i], Dampening, CSCALE), h[arr[i]].severity, R(100))]

\* nextWeights after the two inner for loops
NextWeights(h, arr, flow) ==
    LET n == Len(arr)
    IN  [j \in 1..n |->
            ((CSCALE - Dampening) \div n)
              + SumSeq([i \in 1..n |->
                    IF i # j /\ IsRelated(h[arr[i]], h[arr[j]]) THEN flow[i] ELSE 0])]

\* mutant of Normalize: the weights are not divided by their sum
NormalizeSkipped(nextWeights, sum, weights) == nextWeights

\* // Normalize
Normalize(nextWeights, sum, weights) ==
    IF sum > 0
    THEN [i \in 1..Len(weights) |-> MulDiv(nextWeights[i], CSCALE, sum)]
    ELSE weights

\* one pass of the outer for loop: the weights after the pass (each
\* intermediate array is bound as a value before it is read)
CentralityPass(h, arr, weights) ==
    CHOOSE w \in {Normalize(nextWeights, SumSeq(nextWeights), weights) :
                    nextWeights \in {NextWeights(h, arr, flow) :
                                       flow \in {Flow(h, arr, weights)}}} : TRUE

\* the outer for loop; each pass's weights are bound as a value before the
\* next pass reads them
RECURSIVE CentralityLoop(_, _, _, _)
CentralityLoop(h, arr, weights, iter) ==
    IF iter = Iterations THEN weights
    ELSE CHOOSE w \in {CentralityLoop(h, arr, next, iter + 1) :
                          next \in {CentralityPass(h, arr, weights)}} : TRUE

\* signals.forEach((s, i) => s.centrality = weights[i])
\* mutant of AssignCentrality: the weight is written into probability
AssignCentralityToProbability(h, arr, weights) ==
    [r \in DOMAIN h |->
        IF \E i \in 1..Len(arr) : arr[i] = r
        THEN [h[r] EXCEPT !.probability =
                weights[CHOOSE i \in 1..Len(arr) :
                          arr[i] = r /\ \A j \in (i + 1)..Len(arr) : arr[j] # r]]
        ELSE h[r]]

AssignCentrality(h, arr, weights) ==
    [r \in DOMAIN h |->
        IF \E i \in 1..Len(arr) : arr[i] = r
        THEN [h[r] EXCEPT !.centrality =
                weights[CHOOSE i \in 1..Len(arr) :
                          arr[i] = r /\ \A j \in (i + 1)..Len(arr) : arr[j] # r]]
        ELSE h[r]]

\* returns the heap with centrality set on the signals of arr
calculateCentrality(h, arr) ==
    LET n == Len(arr)
    IN  IF n = 0 THEN h
        ELSE CHOOSE h2 \in {AssignCentrality(h, arr, weights) :
                 weights \in {CentralityLoop(h, arr, [i \in 1..n |-> CSCALE \div n], 0)}} : TRUE

-----------------------------------------------------------------------------
(* generateHypothesis and the tail of analyzeBlackSwans *)

\* severity * probability * (1 + centrality), the key of the final ranking
RankKey(sig) == MulDiv(FMul(sig.severity, sig.probability), CSCALE + sig.centrality, CSCALE)

\* Number.prototype.toFixed(1): tenths, rounded
ToFixed1(x) == (x + 50) \div 100

\* sigs: the fields of the ranked signals; score: globalRiskScore
\* mutant of generateHypothesis: the lower threshold is tested first
generateHypothesisLowerFirst(sigs, score, narrs) ==
    LET tier == IF score > R(40) THEN "STRUCTURAL FRAGILITY ALERT"
                ELSE IF score > R(75) THEN "SYSTEMIC COLLAPSE CONVERGENCE"
                ELSE "STOCHASTIC STABILITY"
        impacts == [i \in 1..Len(sigs) |-> sigs[i].impact] \o <<R(50)>>
    IN  [title |-> tier,
         summary |-> <<"summary", tier>>,
         commentary |-> <<"commentary", tier>>,
         reasoning |-> IF narrs # <<>>
                       THEN <<"Baseline volatility observed in all dimensions.",
                              <<"Primary risk narrative: ", narrs[1].title,
                                ToFixed1(narrs[1].aggregateRisk)>>>>
                       ELSE <<"Baseline volatility observed in all dimensions.">>,
         confidence |-> Min(400 + score \div 150, 950),
         riskMatrix |-> [probability |-> score \div 100,
                         impact |-> MaxSeq(impacts) \div 100]]

generateHypothesis(sigs, score, narrs) ==
    LET tier == IF score > R(75) THEN "SYSTEMIC COLLAPSE CONVERGENCE"
                ELSE IF score > R(40) THEN "STRUCTURAL FRAGILITY ALERT"
                ELSE "STOCHASTIC STABILITY"
        base == <<"Baseline volatility observed in all dimensions.">>
        impacts == [i \in 1..Len(sigs) |-> sigs[i].impact] \o <<R(50)>>
    IN  [title |-> tier,
         summary |-> <<"summary", tier>>,
         commentary |-> <<"commentary", tier>>,
         reasoning |-> IF narrs # <<>>
                       THEN base \o <<<<"Primary risk narrative: ", narrs[1].title,
                                        ToFixed1(narrs[1].aggregateRisk)>>>>
                       ELSE base,
         confidence |-> Min(400 + score \div 150, 950),
         riskMatrix |-> [probability |-> score \div 100,
                         impact |-> MaxSeq(impacts) \div 100]]

NarrativeWeight(n) == FMul(n.aggregateRisk, SCALE + n.momentum)

\* mutant of GlobalRiskScore: the mean is not clamped to 100
GlobalRiskScoreUnclamped(narrs) ==
    IF Len(narrs) > 0
    THEN SumSeq(Map(narrs, NarrativeWeight)) \div Len(narrs)
    ELSE 0

GlobalRiskScore(narrs) ==
    IF Len(narrs) > 0
    THEN Min(SumSeq(Map(narrs, NarrativeWeight)) \div Len(narrs), R(100))
    ELSE 0

\* mutant of TrendDirection: a low score is reported as de-escalating
TrendDirectionThreeWay(score) ==
    IF score > R(40) THEN "escalating"
    ELSE IF score < R(20) THEN "de-escalating" ELSE "stable"

TrendDirection(score) == IF score > R(40) THEN "escalating" ELSE "stable"

RiskScoreOf(region) == region.riskScore

\* mutant of HighRiskRegions: the filter does not look at the severity
HighRiskRegionsAnySeverity(sigs) ==
    LET located == SelectSeq(sigs, LAMBDA s : s.location # <<>>)
        regions == [i \in 1..Len(located) |->
                      [name |-> located[i].location[1].name,
                       lat |-> located[i].location[1].lat,
                       lon |-> located[i].location[1].lon,
                       riskScore |-> FMul(located[i].severity, located[i].probability),
                       primaryThreat |-> located[i].type]]
    IN  SortDesc(regions, Map(regions, RiskScoreOf))

\* sigs: the fields of the ranked signals
HighRiskRegions(sigs) ==
    LET located == SelectSeq(sigs, LAMBDA s : s.location # <<>> /\ s.severity > R(30))
        regions == [i \in 1..Len(located) |->
                      [name |-> located[i].location[1].name,
                       lat |-> located[i].location[1].lat,
                       lon |-> located[i].location[1].lon,
                       riskScore |-> FMul(located[i].severity, located[i].probability),
                       primaryThreat |-> located[i].type]]
    IN  SortDesc(regions, Map(regions, RiskScoreOf))

MatrixSize == 6

DimensionLabels == <<"Econ", "Seis", "Soc", "Cyber", "Geo", "Mil">>

\* mutant of CorrelationMatrix: the draws are not scaled by the score
CorrelationMatrixUnscaled(random, score) ==
    [i \in 1..MatrixSize |-> [j \in 1..MatrixSize |-> random[i][j]]]

\* Math.random() * (globalRiskScore / 100) per cell, random[i][j] being the draws
CorrelationMatrix(random, score) ==
    [i \in 1..MatrixSize |-> [j \in 1..MatrixSize |-> FMul(random[i][j], score \div 100)]]

\* mutant of RankSignals: the comparator is a - b, the order ascending
RankSignalsAscending(h, arr) == SortDesc(arr, [i \in 1..Len(arr) |-> -RankKey(h[arr[i]])])

\* signals.sort(...) of analyzeBlackSwans: the ranked array of handles
RankSignals(h, arr) == SortDesc(arr, [i \in 1..Len(arr) |-> RankKey(h[arr[i]])])

\* mutant of AnalysisOf: compoundedRisk is read from the random fill of the
\* correlation matrix instead of the score
AnalysisOfRandomRisk(ranked, sigs, narrs, score, random, t) ==
    [signals |-> ranked,
     narratives |-> narrs,
     globalRiskScore |-> score,
     trendDirection |-> TrendDirection(score),
     hypothesis |-> generateHypothesis(sigs, score, narrs),
     martingaleMetrics |-> [accumulationRate |-> SCALE + Len(narrs) * 100,
                            decayFactor |-> 950,
                            compoundedRisk |-> CorrelationMatrix(random, score)[1][1]],
     correlationMatrix |-> CorrelationMatrix(random, score),
     dimensionLabels |-> DimensionLabels,
     timestamp |-> t,
     highRiskRegions |-> HighRiskRegions(sigs)]

\* the object analyzeBlackSwans returns; sigs: the fields of the ranked signals
AnalysisOf(ranked, sigs, narrs, score, random, t) ==
    [signals |-> ranked,
     narratives |-> narrs,
     globalRiskScore |-> score,
     trendDirection |-> TrendDirection(score),
     hypothesis |-> generateHypothesis(sigs, score, narrs),
     martingaleMetrics |-> [accumulationRate |-> SCALE + Len(narrs) * 100,
                            decayFactor |-> 950,
                            compoundedRisk |-> score],
     correlationMatrix |-> CorrelationMatrix(random, score),
     dimensionLabels |-> DimensionLabels,
     timestamp |-> t,
     highRiskRegions |-> HighRiskRegions(sigs)]

\* ranked: the sorted signals array
BuildAnalysis(h, ranked, narrs, random, t) ==
    CHOOSE a \in {AnalysisOf(ranked, [i \in 1..Len(ranked) |-> h[ranked[i]]], narrs,
                             score, random, t) :
                    score \in {GlobalRiskScore(narrs)}} : TRUE

-----------------------------------------------------------------------------
(* The snapshots analyzeBlackSwans is called with *)

MaxVessels == 3
MaxFlights == 6
MaxWeather == 11
MaxOutages == 4

\* an array of n records of which the code reads only the array's length
Units(n) == [i \in 1..n |-> [id |-> i]]

Price(p) == [yesPrice |-> p]

Quote(c) == [change |-> c]

MilitaryInputs ==
    { [vessels |-> Units(MaxVessels), flights |-> Units(0),
       predictions |-> <<Price(700), Price(500), Price(990)>>],
      [vessels |-> Units(MaxVessels), flights |-> Units(1),
       predictions |-> <<Price(700), Price(30), [title |-> "no price"]>>],
      [vessels |-> Units(2), flights |-> Units(MaxFlights), predictions |-> <<>>],
      [vessels |-> Units(0), flights |-> Units(2),
       predictions |-> <<Price(700), Price(960), Price(800), Price(940), Price(500)>>] }

EconomicInputs ==
    { [markets |-> <<Quote(400), Quote(-1000), [symbol |-> "^GSPC"]>>,
       sectors |-> <<Quote(3500), Quote(-3000)>>,
       economic |-> <<[id |-> "VIXCLS", value |-> R(18)],
                      [id |-> "UNRATE", value |-> R(5), change |-> 300]>>],
      [markets |-> <<Quote(400), Quote(-2000), [symbol |-> "^GSPC"]>>,
       sectors |-> <<Quote(1000)>>,
       economic |-> <<[id |-> "T10Y2Y", value |-> 500]>>],
      [markets |-> <<Quote(600), Quote(-3500), Quote(5000)>>,
       sectors |-> <<Quote(3100), Quote(-5000), Quote(9000), Quote(3000)>>,
       economic |-> <<[id |-> "VIXCLS", value |-> R(30)],
                      [id |-> "T10Y2Y", value |-> -500],
                      [id |-> "UNRATE", value |-> R(4), change |-> 100]>>] }

SentimentInputs ==
    { [commodities |-> <<[symbol |-> "CL=F", change |-> 2000],
                         [symbol |-> "GC=F", change |-> 1500]>>,
       crypto |-> <<Quote(R(12))>>],
      [commodities |-> <<[symbol |-> "GC=F", change |-> 1600], [symbol |-> "SI=F"]>>,
       crypto |-> <<Quote(R(12)), Quote(-R(15)), Quote(R(3))>>] }

SocialInputs ==
    { [protests |-> <<[eventType |-> "Protests", fatalities |-> 0],
                      [eventType |-> "Violence against civilians"],
                      [summary |-> "riot; mob VIOLENCE reported", fatalities |-> 3]>>],
      [protests |-> <<[fatalities |-> 2], [eventType |-> "Riots", summary |-> "calm"],
                      [fatalities |-> 12]>>],
      [protests |-> <<[fatalities |-> 30], [fatalities |-> 1], [fatalities |-> 11]>>] }

EnvironmentalInputs ==
    { [earthquakes |-> <<[magnitude |-> 2500], [magnitude |-> 4000], [place |-> "x"]>>,
       weather |-> Units(2)],
      [earthquakes |-> <<[magnitude |-> 5100], [magnitude |-> 3000]>>, weather |-> Units(0)],
      [earthquakes |-> <<[magnitude |-> 9000]>>, weather |-> Units(MaxWeather)] }

InfrastructureInputs ==
    { [outages |-> <<[severity |-> "minor"], [severity |-> "partial"], [country |-> "x"]>>],
      [outages |-> <<[severity |-> "major"], [severity |-> "minor"], [severity |-> "total"]>>],
      [outages |-> [i \in 1..MaxOutages |-> [severity |-> "major"]]] }

NarrativeInputs ==
    { [alertCounts |-> <<[category |-> "war", alertCount |-> 5], [category |-> "x"],
                         [category |-> "cyber", alertCount |-> 5]>>, news |-> Units(1)],
      [alertCounts |-> <<[category |-> "war", alertCount |-> 11]>>, news |-> Units(2)],
      [alertCounts |-> <<[category |-> "war", alertCount |-> 30],
                         [category |-> "quake", alertCount |-> 10]>>, news |-> <<>>] }

Without(f, c) == [x \in (DOMAIN f) \ {c} |-> f[x]]

QuietSnapshot ==
    [c \in Categories |-> <<>>]

\* sparse snapshots: one category array is undefined
SparseSnapshots ==
    { Without(QuietSnapshot, c) : c \in Categories }

Clock == {0, 1000}

\* the streams Math.random() may return: draws in [0, 1), as thousandths
RandomStreams ==
    { [i \in 1..MatrixSize |-> [j \in 1..MatrixSize |-> 0]],
      [i \in 1..MatrixSize |-> [j \in 1..MatrixSize |-> 999]],
      [i \in 1..MatrixSize |-> [j \in 1..MatrixSize |-> ((i * 7 + j * 131) * 37) % SCALE]] }

-----------------------------------------------------------------------------
(* analyzeBlackSwans, one action per statement *)

Init ==
    /\ pc = "start"
    /\ \/ \E m \in MilitaryInputs, e \in EconomicInputs, s \in SentimentInputs,
             p \in SocialInputs, v \in EnvironmentalInputs, o \in InfrastructureInputs,
             n \in NarrativeInputs :
               rawData = m @@ e @@ s @@ p @@ v @@ o @@ n
       \/ rawData = QuietSnapshot
       \/ rawData \in SparseSnapshots
    /\ data = <<>>
    /\ now = 0
    /\ heap = <<>>
    /\ signals = <<>>
    /\ narratives = <<>>
    /\ analysis = <<>>
    /\ entry = <<>>
    /\ result = <<>>
    /\ instance = <<>>

\* mutant of Source: the filtered arrays are written back into the snapshot
SourceInPlace ==
    /\ pc = "start"
    /\ ~SourceThrows(rawData)
    /\ rawData' = sourceCandidates(rawData)
    /\ data' = rawData'
    /\ pc' = "sourced"
    /\ UNCHANGED <<now, heap, signals, narratives, analysis, entry, result, instance>>

\* const data = sourceCandidates(rawData)
Source ==
    /\ pc = "start"
    /\ ~SourceThrows(rawData)
    /\ data' = sourceCandidates(rawData)
    /\ pc' = "sourced"
    /\ UNCHANGED <<rawData, now, heap, signals, narratives, analysis, entry, result, instance>>

SourceRaises ==
    /\ pc = "start"
    /\ SourceThrows(rawData)
    /\ pc' = "threw"
    /\ UNCHANGED <<rawData, data, now, heap, signals, narratives, analysis, entry, result, instance>>

\* let signals = extractSignals(data)
Extract ==
    /\ pc = "sourced"
    /\ ~ExtractThrows(data)
    /\ \E t \in Clock :
         LET created == extractSignals(data, t)
         IN  /\ now' = t
             /\ heap' = created
             /\ signals' = [i \in 1..Len(created) |-> i]
    /\ pc' = "extracted"
    /\ UNCHANGED <<rawData, data, narratives, analysis, entry, result, instance>>

ExtractRaises ==
    /\ pc = "sourced"
    /\ ExtractThrows(data)
    /\ pc' = "threw"
    /\ UNCHANGED <<rawData, data, now, heap, signals, narratives, analysis, entry, result, instance>>

\* const narratives = clusterSignals(signals)
Cluster ==
    /\ pc = "extracted"
    /\ LET r == clusterSignals(heap, signals)
       IN  heap' = r.heap /\ narratives' = r.narratives
    /\ pc' = "clustered"
    /\ UNCHANGED <<rawData, data, now, signals, analysis, entry, result, instance>>

\* mutant of Centrality: calculateCentrality is called before clusterSignals
CentralityBeforeClustering ==
    /\ pc = "extracted"
    /\ heap' = calculateCentrality(heap, signals)
    /\ pc' = "scored"
    /\ UNCHANGED <<rawData, data, now, signals, narratives, analysis, entry, result, instance>>

\* calculateCentrality(signals)
Centrality ==
    /\ pc = "clustered"
    /\ heap' = calculateCentrality(heap, signals)
    /\ pc' = "scored"
    /\ UNCHANGED <<rawData, data, now, signals, narratives, analysis, entry, result, instance>>

\* signals = signals.sort(...) and everything after it, to the return
Aggregate ==
    /\ pc = "scored"
    /\ \E ranked \in {RankSignals(heap, signals)}, random \in RandomStreams,
          t \in {u \in Clock : u >= now} :
         /\ signals' = ranked
         /\ analysis' = BuildAnalysis(heap, ranked, narratives, random, t)
    /\ pc' = "returned"
    /\ UNCHANGED <<rawData, data, now, heap, narratives, entry, result, instance>>

Next ==
    \/ Source
    \/ SourceRaises
    \/ Extract
    \/ ExtractRaises
    \/ Cluster
    \/ Centrality
    \/ Aggregate

Spec == Init /\ [][Next]_vars

-----------------------------------------------------------------------------
(* clusterSignals and calculateCentrality applied to an arbitrary signal list *)

MaxSignals == 3

SignalIds == <<"sig-a", "sig-b", "sig-c", "sig-d", "sig-e", "sig-f">>

SignalProbabilities == <<300, 900, 500, 700, 400, 800>>

Kyiv == [name |-> "Kyiv", lat |-> 50450, lon |-> 30523]

\* what a caller may choose of a signal; the ids are pairwise distinct
SignalShapes ==
    [type : {"military", "economic"}, location : {<<>>, <<Kyiv>>},
     timestamp : {0, HourMs}, severity : {0, R(70)}]

SignalOf(shape, i) ==
    [id |-> SignalIds[i], type |-> shape.type, severity |-> shape.severity,
     probability |-> SignalProbabilities[i], impact |-> R(50), centrality |-> 0,
     description |-> "test", indicators |-> <<>>, correlations |-> <<>>,
     timestamp |-> shape.timestamp, location |-> shape.location, clusterId |-> <<>>]

InitSignals ==
    /\ pc = "cluster_call"
    /\ \E n \in 0..MaxSignals : \E shapes \in [1..n -> SignalShapes] :
         heap = [i \in 1..n |-> SignalOf(shapes[i], i)]
    /\ signals = [i \in 1..Len(heap) |-> i]
    /\ rawData = <<>>
    /\ data = <<>>
    /\ now = 0
    /\ narratives = <<>>
    /\ analysis = <<>>
    /\ entry = <<>>
    /\ result = <<>>
    /\ instance = <<>>

\* narratives = clusterSignals(signals)
ClusterCall ==
    /\ pc = "cluster_call"
    /\ LET r == clusterSignals(heap, signals)
       IN  heap' = r.heap /\ narratives' = r.narratives
    /\ pc' = "cluster_done"
    /\ UNCHANGED <<rawData, data, now, signals, analysis, entry, result, instance>>

\* calculateCentrality(signals)
CentralityCall ==
    /\ pc = "cluster_done"
    /\ heap' = calculateCentrality(heap, signals)
    /\ pc' = "centrality_done"
    /\ UNCHANGED <<rawData, data, now, signals, narratives, analysis, entry, result, instance>>

\* the rest of analyzeBlackSwans: the final sort and the returned object
AggregateCall ==
    /\ pc = "centrality_done"
    /\ \E ranked \in {RankSignals(heap, signals)} :
         /\ signals' = ranked
         /\ analysis' = BuildAnalysis(heap, ranked, narratives,
                                      [i \in 1..MatrixSize |-> [j \in 1..MatrixSize |-> 0]], 0)
    /\ pc' = "aggregate_done"
    /\ UNCHANGED <<rawData, data, now, heap, narratives, entry, result, instance>>

NextSignals ==
    \/ ClusterCall
    \/ CentralityCall
    \/ AggregateCall

SpecSignals == InitSignals /\ [][NextSignals]_vars

-----------------------------------------------------------------------------
(* calculateMartingaleRisk applied to an arbitrary value sequence *)

MaxValues == 3

MartingaleValues == {-R(20), 0, R(10), R(50), R(60)}

DecayFactors == {DefaultDecay, 500, SCALE}

InitMartingale ==
    /\ pc = "martingale_call"
    /\ \E n \in 0..MaxValues : \E values \in [1..n -> MartingaleValues] :
         \E decayFactor \in DecayFactors :
            entry = [values |-> values, decayFactor |-> decayFactor]
    /\ result = <<>>
    /\ rawData = <<>>
    /\ data = <<>>
    /\ now = 0
    /\ heap = <<>>
    /\ signals = <<>>
    /\ narratives = <<>>
    /\ analysis = <<>>
    /\ instance = <<>>

MartingaleCall ==
    /\ pc = "martingale_call"
    /\ result' = calculateMartingaleRisk(entry.values, entry.decayFactor)
    /\ pc' = "martingale_done"
    /\ UNCHANGED <<rawData, data, now, heap, signals, narratives, analysis, entry, instance>>

NextMartingale == MartingaleCall

SpecMartingale == InitMartingale /\ [][NextMartingale]_vars

-----------------------------------------------------------------------------
(* BlackSwanCube: the children of the cube group, the listeners the         *)
(* constructor registers and destroy().  A function object made by          *)
(* Function.prototype.bind is [method, id]: every call of bind makes a new  *)
(* object, so the id is the number of the call.                             *)

MaxHotspots == 3
MaxFrames == 2
MaxUpdates == 2

\* a child of the cube group; of says what it was built from
Child(kind, of) == [kind |-> kind, of |-> of]

\* this.onMouseMove.bind(this) and the like: a new function object
Bind(inst, method) == [method |-> method, id |-> inst.bound + 1]

\* while (this.cube.children.length > 0) this.cube.remove(this.cube.children[0])
RECURSIVE ClearChildren(_)
ClearChildren(children) ==
    IF Len(children) > 0 THEN ClearChildren(Tail(children)) ELSE children

\* the three sprites of addAxisLabels(data.labels.slice(0, 3), cubeSize)
addAxisLabels(labels) ==
    LET sliced == SubSeq(labels, 1, Min(3, Len(labels)))
        defaults == <<"X-Axis", "Y-Axis", "Z-Axis">>
    IN  [i \in 1..3 |-> Child("sprite", IF i <= Len(sliced) THEN sliced[i] ELSE defaults[i])]

\* the sphere and the glow of addHotspot
addHotspot(hotspot) ==
    <<Child("sphere", <<hotspot.label, hotspot.intensity>>),
      Child("glow", <<hotspot.label, hotspot.intensity>>)>>

RECURSIVE AddHotspots(_)
AddHotspots(hotspots) ==
    IF hotspots = <<>> THEN <<>>
    ELSE addHotspot(Head(hotspots)) \o AddHotspots(Tail(hotspots))

addHeatmapPlane(correlation, plane) == Child("plane", <<plane, correlation>>)

\* matrix[0][1], matrix[0][2] and matrix[1][2] of the source; a row too short
\* gives undefined, written <<>>
Cell(matrix, i, j) == IF j <= Len(matrix[i]) THEN <<matrix[i][j]>> ELSE <<>>

addCorrelationPlanes(matrix) ==
    IF Len(matrix) < 3 THEN <<>>
    ELSE <<addHeatmapPlane(Cell(matrix, 1, 2), "xy"),
           addHeatmapPlane(Cell(matrix, 1, 3), "xz"),
           addHeatmapPlane(Cell(matrix, 2, 3), "yz")>>

HighIntensity == 500

\* the two loops of addCorrelationLines, from the pair (i, j) on
RECURSIVE LinesFrom(_, _, _)
LinesFrom(hotspots, i, j) ==
    IF i > Len(hotspots) THEN <<>>
    ELSE IF j > Len(hotspots) THEN LinesFrom(hotspots, i + 1, i + 2)
    ELSE (IF hotspots[i].intensity > HighIntensity /\ hotspots[j].intensity > HighIntensity
          THEN <<Child("line", <<i, j>>)>> ELSE <<>>)
         \o LinesFrom(hotspots, i, j + 1)

addCorrelationLines(hotspots) == LinesFrom(hotspots, 1, 2)

\* data.labels && data.labels.length > 0, and the same for the other fields
NonEmpty(d, f) == Has(d, f) /\ Len(d[f]) > 0

\* the children updateData adds after the clear loop
BuiltFrom(d) ==
    <<Child("wireframe", "outerWireframe"), Child("wireframe", "wireframeCube")>>
      \o (IF NonEmpty(d, "labels") THEN addAxisLabels(d.labels) ELSE <<>>)
      \o (IF NonEmpty(d, "hotspots") THEN AddHotspots(d.hotspots) ELSE <<>>)
      \o (IF NonEmpty(d, "correlationMatrix")
          THEN addCorrelationPlanes(d.correlationMatrix) ELSE <<>>)
      \o (IF NonEmpty(d, "hotspots") THEN addCorrelationLines(d.hotspots) ELSE <<>>)

\* mutant of updateData: the clear loop is missing
updateDataWithoutClear(inst, d) ==
    [inst EXCEPT !.children = inst.children \o BuiltFrom(d),
                 !.updates = @ + 1]

updateData(inst, d) ==
    [inst EXCEPT !.children = ClearChildren(inst.children) \o BuiltFrom(d),
                 !.updates = @ + 1]

\* animate(): requests the next frame with a new bound function and renders
animate(inst) ==
    [inst EXCEPT !.bound = @ + 1,
                 !.animationId = <<inst.frames + 1>>,
                 !.scheduled = <<[id |-> inst.frames + 1, callback |-> Bind(inst, "animate")]>>,
                 !.frames = @ + 1]

\* the constructor: an empty cube group, the two listeners, the first animate()
NewCube ==
    LET made == [children |-> <<>>, mouseX |-> 0, mouseY |-> 0, width |-> 450,
                 bound |-> 0, frames |-> 0, updates |-> 0,
                 containerListeners |-> {}, windowListeners |-> {},
                 animationId |-> <<>>, scheduled |-> <<>>,
                 attached |-> TRUE, disposed |-> FALSE,
                 destroyed |-> FALSE, ranAfterDestroy |-> FALSE]
        moved == [made EXCEPT !.containerListeners = @ \cup {Bind(made, "onMouseMove")},
                              !.bound = @ + 1]
        sized == [moved EXCEPT !.windowListeners = @ \cup {Bind(moved, "onResize")},
                               !.bound = @ + 1]
    IN  animate(sized)

\* onMouseMove(event); ranAfterDestroy records a run after destroy()
onMouseMove(inst, position) ==
    [inst EXCEPT !.mouseX = position[1], !.mouseY = position[2],
                 !.ranAfterDestroy = @ \/ inst.destroyed]

onResize(inst, width) ==
    [inst EXCEPT !.width = width, !.ranAfterDestroy = @ \/ inst.destroyed]

\* destroy(): removeEventListener is handed two new bound functions
destroy(inst) ==
    LET cancelled == [inst EXCEPT !.scheduled =
                         IF inst.animationId # <<>> /\ @ # <<>> /\ @[1].id = inst.animationId[1]
                         THEN <<>> ELSE @]
        unmoved == [cancelled EXCEPT
                       !.containerListeners = @ \ {Bind(cancelled, "onMouseMove")},
                       !.bound = @ + 1]
        unsized == [unmoved EXCEPT
                       !.windowListeners = @ \ {Bind(unmoved, "onResize")},
                       !.bound = @ + 1]
    IN  [unsized EXCEPT !.disposed = TRUE, !.attached = FALSE, !.destroyed = TRUE]

Intensities == {HighIntensity, 900}

Hotspot(v) == [x |-> 500, y |-> 500, z |-> 500, intensity |-> v, label |-> "hotspot"]

\* labels and size of the correlation matrix of a CubeVisualizationData
LabelsAndSizes ==
    {<<<<>>, 0>>, <<<<"Econ">>, 2>>, <<DimensionLabels, 3>>}

SquareMatrix(n) == [i \in 1..n |-> [j \in 1..n |-> 300]]

MousePositions == {<<0, 0>>, <<500, -500>>}

ContainerWidths == {450, 900}

\* the data updateData is called with; the last three lack one field
CubeData ==
    UNION {{[labels |-> ls[1],
             hotspots |-> [i \in 1..n |-> Hotspot(values[i])],
             correlationMatrix |-> SquareMatrix(ls[2])] :
               values \in [1..n -> Intensities], ls \in LabelsAndSizes} : n \in 0..MaxHotspots}
    \cup {Without([labels |-> DimensionLabels,
                   hotspots |-> <<Hotspot(900), Hotspot(900)>>,
                   correlationMatrix |-> SquareMatrix(MatrixSize)], f) :
             f \in {"labels", "hotspots", "correlationMatrix"}}

InitCube ==
    /\ pc = "cube_live"
    /\ instance = NewCube
    /\ entry = <<>>
    /\ result = <<>>
    /\ rawData = <<>>
    /\ data = <<>>
    /\ now = 0
    /\ heap = <<>>
    /\ signals = <<>>
    /\ narratives = <<>>
    /\ analysis = <<>>

\* cube.updateData(data)
UpdateData ==
    /\ pc = "cube_live"
    /\ instance.updates < MaxUpdates
    /\ \E d \in CubeData :
         /\ entry' = d
         /\ instance' = updateData(instance, d)
    /\ UNCHANGED <<pc, rawData, data, now, heap, signals, narratives, analysis, result>>

\* a mousemove event on the container: its listeners run
MouseMove ==
    /\ pc = "cube_live"
    /\ \E position \in MousePositions :
         instance' = IF \E f \in instance.containerListeners : f.method = "onMouseMove"
                     THEN onMouseMove(instance, position)
                     ELSE instance
    /\ UNCHANGED <<pc, rawData, data, now, heap, signals, narratives, analysis, entry, result>>

\* a resize event on window: its listeners run
Resize ==
    /\ pc = "cube_live"
    /\ \E width \in ContainerWidths :
         instance' = IF \E f \in instance.windowListeners : f.method = "onResize"
                     THEN onResize(instance, width)
                     ELSE instance
    /\ UNCHANGED <<pc, rawData, data, now, heap, signals, narratives, analysis, entry, result>>

\* the browser runs the scheduled animation frame callback
AnimationFrame ==
    /\ pc = "cube_live"
    /\ instance.scheduled # <<>>
    /\ instance.frames < MaxFrames
    /\ instance' = animate(instance)
    /\ UNCHANGED <<pc, rawData, data, now, heap, signals, narratives, analysis, entry, result>>

\* cube.destroy()
Destroy ==
    /\ pc = "cube_live"
    /\ ~instance.destroyed
    /\ instance' = destroy(instance)
    /\ UNCHANGED <<pc, rawData, data, now, heap, signals, narratives, analysis, entry, result>>

NextCube ==
    \/ UpdateData
    \/ MouseMove
    \/ Resize
    \/ AnimationFrame
    \/ Destroy

SpecCube == InitCube /\ [][NextCube]_vars

-----------------------------------------------------------------------------
(* Properties *)

Returned == pc = "returned"

\* the fields of the i-th signal of the returned analysis
ReturnedSignal(i) == heap[analysis.signals[i]]

\* C1: every signal analyzeBlackSwans returns has severity in [0,100],
\* probability in [0,1] and impact in [0,100].
C1_SignalRanges ==
    Returned =>
        \A i \in 1..Len(analysis.signals) :
            /\ 0 <= ReturnedSignal(i).severity /\ ReturnedSignal(i).severity <= R(100)
            /\ 0 <= ReturnedSignal(i).probability /\ ReturnedSignal(i).probability <= R(1)
            /\ 0 <= ReturnedSignal(i).impact /\ ReturnedSignal(i).impact <= R(100)

\* all seven rules fired, one severity was clamped to 100, one lies strictly
\* inside, and the Bayesian posterior 0.45 is among the probabilities
C1_Witness ==
    /\ Returned
    /\ Len(analysis.signals) = 7
    /\ \E i \in 1..7 : ReturnedSignal(i).severity = R(100)
    /\ \E i \in 1..7 : ReturnedSignal(i).severity \in 1..(R(100) - 1)
    /\ \E i \in 1..7 : ReturnedSignal(i).type = "military"
                         /\ ReturnedSignal(i).probability = 450

\* the places <<k, m>> at which a narrative lists the signal object r
PlacesOf(r) ==
    {km \in (1..Len(narratives)) \X (1..Len(signals)) :
        km[2] <= Len(narratives[km[1]].signals)
          /\ narratives[km[1]].signals[km[2]] = r}

\* C2: for signals with pairwise distinct ids, the narratives clusterSignals
\* returns partition the list: every signal is listed by exactly one narrative,
\* exactly once; no narrative is empty; every narrative lists only signals of
\* the list; each signal's clusterId is the id of the narrative listing it.
C2_Partition ==
    pc \in {"cluster_done", "centrality_done"} =>
        /\ \A i \in 1..Len(signals) : Cardinality(PlacesOf(signals[i])) = 1
        /\ \A k \in 1..Len(narratives) :
             /\ Len(narratives[k].signals) >= 1
             /\ \A m \in 1..Len(narratives[k].signals) :
                  /\ \E i \in 1..Len(signals) : signals[i] = narratives[k].signals[m]
                  /\ heap[narratives[k].signals[m]].clusterId = <<narratives[k].id>>
        /\ \A k, l \in 1..Len(narratives) : narratives[k].id = narratives[l].id => k = l

\* three signals came back as two narratives, one of two members
C2_Witness ==
    /\ pc = "cluster_done"
    /\ Len(signals) = 3
    /\ Len(narratives) = 2
    /\ \E k \in 1..2 : Len(narratives[k].signals) = 2

CentralitySum == SumSeq([i \in 1..Len(signals) |-> heap[signals[i]].centrality])

\* 1e-6, in units of 1/CSCALE
CentralityTolerance == CSCALE \div (SCALE * SCALE)

\* C3: for a non-empty signal list, after calculateCentrality the centralities
\* sum to 1 within 1e-6 and each lies in [0,1].
C3_CentralitySumsToOne ==
    (pc = "centrality_done" /\ Len(signals) > 0) =>
        /\ Abs(CentralitySum - CSCALE) <= CentralityTolerance
        /\ \A i \in 1..Len(signals) :
             0 <= heap[signals[i]].centrality /\ heap[signals[i]].centrality <= CSCALE

\* three signals in two narratives whose centralities differ
C3_Witness ==
    /\ pc = "centrality_done"
    /\ Len(signals) = 3
    /\ Len(narratives) = 2
    /\ heap[signals[1]].centrality > heap[signals[2]].centrality
    /\ heap[signals[2]].centrality > 0

\* the indices of array a whose element satisfies P
Where(a, P(_)) == {i \in 1..Len(a) : P(a[i])}

\* the thresholds of the seven rules, read on the filtered snapshot d: no
\* category reaches the value at which its rule fires
BelowEveryThreshold(d) ==
    /\ Len(d.vessels) * 2 + Len(d.flights) * 5 <= 10
    /\ Cardinality(Where(d.predictions, LAMBDA p : p.yesPrice > 600)) <= 2
    /\ SumSeq([i \in 1..Len(d.markets) |-> AbsChange(d.markets[i])])
          <= 1200 * Len(d.markets)
    /\ Cardinality(Where(d.sectors, LAMBDA x : AbsChange(x) > 3000)) <= 2
    /\ (IF \E i \in 1..Len(d.economic) :
              d.economic[i].id = "VIXCLS" /\ OrZero(d.economic[i], "value") > R(25)
        THEN 20 ELSE 0)
       + (IF \E i \in 1..Len(d.economic) :
              d.economic[i].id = "T10Y2Y" /\ OrZero(d.economic[i], "value") < 0
          THEN 15 ELSE 0)
       + (IF \E i \in 1..Len(d.economic) :
              d.economic[i].id = "UNRATE" /\ OrZero(d.economic[i], "change") > 200
          THEN 10 ELSE 0) <= 10
    /\ Where(d.commodities, LAMBDA c : c.symbol = "CL=F" /\ OrZero(c, "change") > 3000) = {}
    /\ Where(d.commodities, LAMBDA c : c.symbol = "GC=F" /\ OrZero(c, "change") > 1500) = {}
    /\ Cardinality(Where(d.crypto, LAMBDA c : AbsChange(c) > R(10))) <= 1
    /\ calculateMartingaleRisk(
           [i \in 1..Len(d.protests) |-> R(OrZero(d.protests[i], "fatalities") * 5)],
           DefaultDecay) <= R(20)
    /\ \A i \in 1..Len(d.earthquakes) : d.earthquakes[i].magnitude <= 5000
    /\ Len(d.weather) <= 10
    /\ Where(d.outages, LAMBDA o : Has(o, "severity") /\ o.severity \in {"total", "major"}) = {}
    /\ SumSeq([i \in 1..Len(d.alertCounts) |-> OrZero(d.alertCounts[i], "alertCount")]) <= 10

\* C4: if every category of the snapshot is below its rule's firing threshold,
\* analyzeBlackSwans returns no signal, no narrative, globalRiskScore 0 and
\* trendDirection "stable".
C4_QuietSnapshot ==
    (Returned /\ BelowEveryThreshold(data)) =>
        /\ analysis.signals = <<>>
        /\ analysis.narratives = <<>>
        /\ analysis.globalRiskScore = 0
        /\ analysis.trendDirection = "stable"

\* a snapshot with vessels, protests with fatalities, quotes, outages and ten
\* alerts, all of it below the thresholds, was analysed
C4_Witness ==
    /\ Returned
    /\ BelowEveryThreshold(data)
    /\ \A c \in Categories \ {"flights"} : Len(rawData[c]) > 0
    /\ Len(data.protests) > 0
    /\ Len(data.predictions) > 0
    /\ SumSeq([i \in 1..Len(data.alertCounts) |-> OrZero(data.alertCounts[i], "alertCount")]) = 10
    /\ analysis.signals = <<>>
    /\ analysis.globalRiskScore = 0

\* C5: analyzeBlackSwans never raises, whatever the snapshot, also when a
\* category array of the snapshot is missing.
C5_NeverRaises == pc # "threw"

\* C6: analyzeBlackSwans leaves its input snapshot unchanged.
C6_SnapshotUnchanged == [][rawData' = rawData]_vars

\* an analysis was returned for a snapshot of which sourceCandidates dropped
\* records and whose signals the final sort reordered
C6_Witness ==
    /\ Returned
    /\ \A c \in FilteredCategories : Len(data[c]) < Len(rawData[c])
    /\ Len(analysis.signals) >= 2
    /\ analysis.signals # [i \in 1..Len(analysis.signals) |-> i]

\* severity x probability x (1 + centrality)
RankingKey(sig) ==
    MulDiv((sig.severity * sig.probability) \div SCALE, CSCALE + sig.centrality, CSCALE)

RECURSIVE WeightedRiskSum(_)
WeightedRiskSum(narrs) ==
    IF narrs = <<>> THEN 0
    ELSE (narrs[1].aggregateRisk * (SCALE + narrs[1].momentum)) \div SCALE
           + WeightedRiskSum(Tail(narrs))

MeanWeightedRisk(narrs) == WeightedRiskSum(narrs) \div Len(narrs)

C9_TrendDirection ==
    Returned =>
        /\ analysis.trendDirection = "escalating" <=> analysis.globalRiskScore > R(40)
        /\ analysis.trendDirection = "stable" <=> analysis.globalRiskScore <= R(40)
        /\ analysis.trendDirection # "de-escalating"

\* an analysis with signals and a score of at most 40 was returned as stable
C9_Witness ==
    /\ Returned
    /\ analysis.signals # <<>>
    /\ analysis.globalRiskScore > 0
    /\ analysis.globalRiskScore <= R(40)
    /\ analysis.trendDirection = "stable"

\* the process of the claim: the values are taken from the last to the first;
\* each adds value x multiplier to the score, then the multiplier is
\* multiplied by 1.2 if value > 50, then by the decay factor
RECURSIVE MartingaleProcess(_, _, _, _)
MartingaleProcess(rest, score, multiplier, decay) ==
    IF rest = <<>> THEN score
    ELSE LET value  == rest[Len(rest)]
             raised == IF value > R(50) THEN (multiplier * 1200) \div SCALE ELSE multiplier
         IN  MartingaleProcess(SubSeq(rest, 1, Len(rest) - 1),
                               score + (value * multiplier) \div SCALE,
                               (raised * decay) \div SCALE, decay)

C11_MartingaleClamped ==
    pc = "martingale_done" => (0 <= result /\ result <= R(100))

\* the military signal among the extracted signals, as a set of records
MilitarySignals ==
    {heap[signals[i]] : i \in {j \in 1..Len(signals) : heap[signals[j]].id = "geopolitical-clash"}}

Extracted == pc \in {"extracted", "clustered", "scored", "returned"}

MilActivityOf(d) == Len(d.vessels) * 2 + Len(d.flights) * 5

PredictionStressOf(d) ==
    Cardinality({i \in 1..Len(d.predictions) :
                   "yesPrice" \in DOMAIN d.predictions[i] /\ d.predictions[i].yesPrice > 600})

\* C12: the military rule emits its signal iff vessels x 2 + flights x 5 > 10
\* or more than 2 prediction entries have yesPrice > 0.6; the signal has
\* severity min(milActivity + predictionStress x 15, 100), probability 0.45 if
\* milActivity > 30 and 0.2 otherwise, impact 95; 2 vessels and 6 flights
\* without predictions give severity 34 and probability 0.45.
C12_MilitaryRule ==
    Extracted =>
        /\ MilitarySignals # {} <=> (MilActivityOf(data) > 10 \/ PredictionStressOf(data) > 2)
        /\ \A s \in MilitarySignals :
             /\ s.severity = (IF MilActivityOf(data) + PredictionStressOf(data) * 15 > 100
                              THEN R(100)
                              ELSE R(MilActivityOf(data) + PredictionStressOf(data) * 15))
             /\ s.probability = (IF MilActivityOf(data) > 30 THEN 450 ELSE 200)
             /\ s.impact = R(95)
        /\ (Len(data.vessels) = 2 /\ Len(data.flights) = 6 /\ data.predictions = <<>>) =>
             \E s \in MilitarySignals : s.severity = R(34) /\ s.probability = 450

\* the example of the claim was extracted
C12_Witness ==
    /\ pc = "extracted"
    /\ Len(data.vessels) = 2 /\ Len(data.flights) = 6 /\ data.predictions = <<>>
    /\ \E s \in MilitarySignals : s.severity = R(34) /\ s.probability = 450 /\ s.impact = R(95)

\* the handles of the signals of the narrative that signal r belongs to
NarrativeMembers(r) ==
    UNION {{narratives[k].signals[i] : i \in 1..Len(narratives[k].signals)} :
             k \in {l \in 1..Len(narratives) : <<narratives[l].id>> = heap[r].clusterId}}

\* a is in a narrative of several members, c is alone in its narrative, and
\* the two have the same severity and the same type
TwinOfSingleton(a, c) ==
    /\ heap[a].severity = heap[c].severity
    /\ heap[a].type = heap[c].type
    /\ Cardinality(NarrativeMembers(a)) > 1
    /\ NarrativeMembers(c) = {c}

\* a member of a's narrative of another type than a's has a positive severity
HasInflow(a) ==
    \E b \in NarrativeMembers(a) : heap[b].type # heap[a].type /\ heap[b].severity > 0

RECURSIVE RiskSum(_)
RiskSum(members) ==
    IF members = <<>> THEN 0
    ELSE (heap[members[1]].severity * heap[members[1]].probability) \div SCALE
           + RiskSum(Tail(members))

\* C14: for every narrative built by clusterSignals, aggregateRisk is the mean
\* of severity x probability over its members and momentum is
\* member count x (aggregateRisk / 100).
C14_AggregateRisk ==
    pc \in {"cluster_done", "centrality_done"} =>
        \A k \in 1..Len(narratives) :
            /\ narratives[k].aggregateRisk
                 = RiskSum(narratives[k].signals) \div Len(narratives[k].signals)
            /\ narratives[k].momentum
                 = (Len(narratives[k].signals) * narratives[k].aggregateRisk) \div 100

\* a narrative of three members of different severity x probability was built
C14_Witness ==
    /\ pc = "cluster_done"
    /\ \E k \in 1..Len(narratives) :
         /\ Len(narratives[k].signals) = 3
         /\ narratives[k].aggregateRisk = R(28)
         /\ narratives[k].momentum = 840

\* the entry of highRiskRegions that the returned signal at place i maps to
RegionOf(i) ==
    [name |-> ReturnedSignal(i).location[1].name,
     lat |-> ReturnedSignal(i).location[1].lat,
     lon |-> ReturnedSignal(i).location[1].lon,
     riskScore |-> (ReturnedSignal(i).severity * ReturnedSignal(i).probability) \div SCALE,
     primaryThreat |-> ReturnedSignal(i).type]

\* the places of the returned signals that have a location and severity > 30
HighRiskPlaces ==
    {i \in 1..Len(analysis.signals) :
        ReturnedSignal(i).location # <<>> /\ ReturnedSignal(i).severity > R(30)}

\* C15: highRiskRegions has one entry for each returned signal with a location
\* and severity > 30 and no other entry; an entry has riskScore = severity x
\* probability and primaryThreat = the signal's type; the list is in order of
\* non-increasing riskScore.
C15_HighRiskRegions ==
    pc \in {"aggregate_done", "returned"} =>
        /\ Len(analysis.highRiskRegions) = Cardinality(HighRiskPlaces)
        /\ \A e \in {RegionOf(i) : i \in HighRiskPlaces}
                 \cup {analysis.highRiskRegions[k] : k \in 1..Len(analysis.highRiskRegions)} :
             Cardinality({i \in HighRiskPlaces : RegionOf(i) = e})
               = Cardinality({k \in 1..Len(analysis.highRiskRegions) :
                                analysis.highRiskRegions[k] = e})
        /\ \A k \in 1..Len(analysis.highRiskRegions) :
             \A l \in (k + 1)..Len(analysis.highRiskRegions) :
                analysis.highRiskRegions[k].riskScore >= analysis.highRiskRegions[l].riskScore

\* three signals were returned, one of them left out of highRiskRegions, the
\* two entries of different riskScore
C15_Witness ==
    /\ pc = "aggregate_done"
    /\ Len(analysis.signals) = 3
    /\ Len(analysis.highRiskRegions) = 2
    /\ analysis.highRiskRegions[1].riskScore > analysis.highRiskRegions[2].riskScore
    /\ analysis.highRiskRegions[1].primaryThreat # analysis.highRiskRegions[2].primaryThreat
    /\ \E i \in 1..3 : ReturnedSignal(i).location # <<>> /\ ReturnedSignal(i).severity = 0

\* the threshold of a filtered category, met by record x of that category
MeetsThreshold(c, x) ==
    CASE c = "markets" ->
           "change" \in DOMAIN x /\ (x.change > 500 \/ x.change < -500)
      [] c = "earthquakes" ->
           "magnitude" \in DOMAIN x /\ x.magnitude > 3000
      [] c = "protests" ->
           \/ "fatalities" \in DOMAIN x /\ x.fatalities > 0
           \/ "eventType" \in DOMAIN x /\ IncludesViolence(x.eventType)
           \/ "summary" \in DOMAIN x /\ IncludesViolence(x.summary)
      [] c = "outages" ->
           "severity" \notin DOMAIN x \/ x.severity # "minor"
      [] c = "predictions" ->
           "yesPrice" \in DOMAIN x /\ 50 < x.yesPrice /\ x.yesPrice < 950

\* the indices of the records of category c of the input that meet its threshold
KeptIndices(c) == {i \in 1..Len(rawData[c]) : MeetsThreshold(c, rawData[c][i])}

\* the k-th smallest element of the set of indices S
NthOf(S, k) == CHOOSE i \in S : Cardinality({j \in S : j <= i}) = k

\* C16: for each filtered category sourceCandidates returns exactly the
\* records of the input that meet the category's threshold, in the input's
\* order; vessels, flights and every other field are returned as they are.
C16_SourceCandidates ==
    pc = "sourced" =>
        /\ DOMAIN data = DOMAIN rawData
        /\ \A c \in FilteredCategories :
             /\ Len(data[c]) = Cardinality(KeptIndices(c))
             /\ \A k \in 1..Len(data[c]) : data[c][k] = rawData[c][NthOf(KeptIndices(c), k)]
        /\ \A c \in (DOMAIN rawData) \ FilteredCategories : data[c] = rawData[c]

\* a snapshot was filtered of which every filtered category lost a record and
\* kept one, an earthquake of magnitude 3.0 among the dropped
C16_Witness ==
    /\ pc = "sourced"
    /\ \A c \in FilteredCategories : 0 < Len(data[c]) /\ Len(data[c]) < Len(rawData[c])
    /\ \E i \in 1..Len(rawData.earthquakes) :
         /\ "magnitude" \in DOMAIN rawData.earthquakes[i]
         /\ rawData.earthquakes[i].magnitude = 3000
    /\ Len(rawData.vessels) > 0
    /\ data.vessels = rawData.vessels

\* record r without the fields of the set hidden
Hide(r, hidden) == [f \in (DOMAIN r) \ hidden |-> r[f]]

\* what a run shows apart from the timestamps and the correlation matrix: the
\* signals in their returned order and the rest of the analysis
Observable(h, a) ==
    [signals |-> [i \in 1..Len(a.signals) |-> Hide(h[a.signals[i]], {"timestamp"})],
     analysis |-> Hide(a, {"timestamp", "correlationMatrix"})]

\* a second run of analyzeBlackSwans on snapshot raw, at time 0 and with every
\* draw of Math.random() equal to 0, statement by statement
Handles(h) == [i \in 1..Len(h) |-> i]

SecondRunScored(h, narrs) ==
    Observable(h, BuildAnalysis(h, RankSignals(h, Handles(h)), narrs,
                                [i \in 1..MatrixSize |-> [j \in 1..MatrixSize |-> 0]], 0))

SecondRunClustered(cl) ==
    CHOOSE o \in {SecondRunScored(h, cl.narratives) :
                    h \in {calculateCentrality(cl.heap, Handles(cl.heap))}} : TRUE

SecondRunExtracted(created) ==
    CHOOSE o \in {SecondRunClustered(cl) :
                    cl \in {clusterSignals(created, Handles(created))}} : TRUE

SecondRun(raw) ==
    CHOOSE o \in {SecondRunExtracted(created) :
                    created \in {extractSignals(sourceCandidates(raw), 0)}} : TRUE

\* C17: two runs of analyzeBlackSwans on the same snapshot agree on everything
\* but the timestamps and the entries of correlationMatrix.
C17_Deterministic ==
    Returned => Observable(heap, analysis) = SecondRun(rawData)

\* a run at time 1000 with non-zero draws returned signals and a correlation
\* matrix that differs from the second run's
C17_Witness ==
    /\ Returned
    /\ now = 1000
    /\ Len(analysis.signals) >= 2
    /\ analysis.timestamp = 1000
    /\ analysis.correlationMatrix[1][1] > 0

Clustered == pc \in {"cluster_done", "centrality_done"}

\* the narrative created as the n-th (from 0): its id is narrative-n
NarrativeNumbered(n) ==
    narratives[CHOOSE k \in 1..Len(narratives) : narratives[k].id = <<"narrative-", n>>]

MembersOf(narr) == {narr.signals[i] : i \in 1..Len(narr.signals)}

\* the signals assigned to a narrative before the n-th narrative was created
AssignedBefore(n) == UNION {MembersOf(NarrativeNumbered(m)) : m \in 0..(n - 1)}

\* the first signal, in input order, that is unassigned at that moment
FirstUnassigned(n) ==
    signals[CHOOSE i \in 1..Len(signals) :
               /\ signals[i] \notin AssignedBefore(n)
               /\ \A j \in 1..(i - 1) : signals[j] \in AssignedBefore(n)]

\* signal s has the type of signal a, or its named location, or a timestamp
\* within one hour of a's
MatchesAnchor(s, a) ==
    \/ s.type = a.type
    \/ a.location # <<>> /\ s.location # <<>> /\ s.location[1].name = a.location[1].name
    \/ (s.timestamp - a.timestamp < 3600000 /\ a.timestamp - s.timestamp < 3600000)

\* C18: the anchor of each narrative is the first still unassigned signal in
\* input order; the members are exactly the signals unassigned at that moment
\* that have the anchor's type, named location or a timestamp within one hour
\* of the anchor's; primaryDimension is the anchor's type.
C18_AnchorMembers ==
    Clustered =>
        \A n \in 0..(Len(narratives) - 1) :
            /\ MembersOf(NarrativeNumbered(n))
                 = {r \in (DOMAIN heap) \ AssignedBefore(n) :
                      MatchesAnchor(heap[r], heap[FirstUnassigned(n)])}
            /\ Len(NarrativeNumbered(n).signals) = Cardinality(MembersOf(NarrativeNumbered(n)))
            /\ NarrativeNumbered(n).primaryDimension = heap[FirstUnassigned(n)].type

\* the first narrative took the second signal for its location alone, and the
\* second narrative is anchored at the third signal
C18_Witness ==
    /\ pc = "cluster_done"
    /\ Len(signals) = 3
    /\ Len(narratives) = 2
    /\ MembersOf(NarrativeNumbered(0)) = {signals[1], signals[2]}
    /\ heap[signals[2]].type # heap[signals[1]].type
    /\ heap[signals[2]].timestamp - heap[signals[1]].timestamp = 3600000
    /\ FirstUnassigned(1) = signals[3]

\* a is the anchor of a narrative, b and c are two other signals unassigned
\* when that narrative is created, b matches a, c matches b, c does not match a
Chain(a, b, c) ==
    /\ a # b /\ b # c /\ a # c
    /\ MatchesAnchor(heap[b], heap[a])
    /\ MatchesAnchor(heap[c], heap[b])
    /\ ~MatchesAnchor(heap[c], heap[a])
    /\ \E n \in 0..(Len(narratives) - 1) :
         /\ a = FirstUnassigned(n)
         /\ {b, c} \cap AssignedBefore(n) = {}

\* C19 as stated: if B matches anchor A and an unassigned C matches B but not
\* A, then C ends up in the narrative of A.
C19_JoinsThroughMember ==
    Clustered =>
        \A a, b, c \in DOMAIN heap :
            Chain(a, b, c) => heap[c].clusterId = heap[a].clusterId

\* C19 amended: if B matches anchor A and an unassigned C matches B but not A,
\* then B is in the narrative of A and C is not.
C19_NotThroughMember ==
    Clustered =>
        \A a, b, c \in DOMAIN heap :
            Chain(a, b, c) =>
                /\ heap[b].clusterId = heap[a].clusterId
                /\ heap[c].clusterId # heap[a].clusterId

\* such a chain was clustered
C19_Witness ==
    /\ pc = "cluster_done"
    /\ \E a, b, c \in DOMAIN heap :
         /\ Chain(a, b, c)
         /\ heap[c].clusterId # <<>>
         /\ heap[c].clusterId # heap[a].clusterId

\* the partition into narratives that clusterSignals makes of the signals
\* when it is given them in the order arr
PartitionIn(arr) ==
    LET narrs == clusterSignals([r \in DOMAIN heap |-> [heap[r] EXCEPT !.clusterId = <<>>]],
                                arr).narratives
    IN  {MembersOf(narrs[k]) : k \in 1..Len(narrs)}

Reversed(arr) == [i \in 1..Len(arr) |-> arr[Len(arr) + 1 - i]]

\* C20: clusterSignals is order-dependent: three signals of which the second
\* matches the first and the third matches the second but not the first are
\* partitioned differently when they are given in the reverse order.
C20_OrderDependent ==
    (Clustered /\ Len(signals) = 3 /\ Chain(signals[1], signals[2], signals[3])) =>
        /\ {MembersOf(narratives[k]) : k \in 1..Len(narratives)} = PartitionIn(signals)
        /\ PartitionIn(signals) # PartitionIn(Reversed(signals))

\* three such signals were clustered: the first two together in the given
\* order, the last two together in the reverse order
C20_Witness ==
    /\ pc = "cluster_done"
    /\ Len(signals) = 3
    /\ Chain(signals[1], signals[2], signals[3])
    /\ PartitionIn(signals) = {{signals[1], signals[2]}, {signals[3]}}
    /\ PartitionIn(Reversed(signals)) = {{signals[1]}, {signals[2], signals[3]}}

\* one step of a call keeps the order of the stages
StagesInOrder ==
    /\ pc' = "sourced" => pc = "start"
    /\ pc' = "extracted" => pc = "sourced"
    /\ pc' = "clustered" => pc = "extracted"
    /\ pc' = "scored" => pc = "clustered"
    /\ pc' = "returned" => pc = "scored"
    /\ pc \in {"extracted", "clustered", "scored"} => DOMAIN heap' = DOMAIN heap
    /\ pc' = "scored" => \A r \in DOMAIN heap : heap[r].clusterId # <<>>
    /\ pc' \in {"scored", "returned"} =>
         \A r \in DOMAIN heap' :
            \E k \in 1..Len(narratives') : <<narratives'[k].id>> = heap'[r].clusterId

\* one step after extraction leaves every field of every signal but
\* clusterId and centrality as it was
OnlyClusterIdAndCentralityChange ==
    pc \in {"extracted", "clustered", "scored"} =>
       /\ DOMAIN heap' = DOMAIN heap
       /\ \A r \in DOMAIN heap :
            \A f \in (DOMAIN heap[r]) \ {"clusterId", "centrality"} :
               f \in DOMAIN heap'[r] /\ heap'[r][f] = heap[r][f]

\* C21: within one call the stages run in the order sourcing, extraction,
\* clustering, centrality, ranking/aggregation; no signal is added once
\* clustering has started, and calculateCentrality starts only when every
\* signal has the clusterId that clusterSignals assigns.
C21_StageOrder ==
    [][StagesInOrder]_vars

\* calculateCentrality has run on several signals, each with its clusterId
C21_Witness ==
    /\ pc = "scored"
    /\ Len(signals) >= 3
    /\ \A r \in DOMAIN heap : heap[r].clusterId # <<>> /\ heap[r].centrality > 0

\* C22: after extraction the later stages change only the clusterId and the
\* centrality of a signal; its other fields stay as extractSignals set them.
C22_SignalFrame ==
    [][OnlyClusterIdAndCentralityChange]_vars

\* signals were returned with their clusterId and centrality set and the
\* severity and timestamp of their extraction
C22_Witness ==
    /\ Returned
    /\ now = 1000
    /\ Len(analysis.signals) >= 2
    /\ \A i \in 1..Len(analysis.signals) :
         /\ ReturnedSignal(i).clusterId # <<>>
         /\ ReturnedSignal(i).centrality > 0
         /\ ReturnedSignal(i).timestamp = now
         /\ ReturnedSignal(i).severity > 0

\* the three titles generateHypothesis can give
HypothesisTitles ==
    {"SYSTEMIC COLLAPSE CONVERGENCE", "STRUCTURAL FRAGILITY ALERT", "STOCHASTIC STABILITY"}

\* C23: the hypothesis tier is selected by globalRiskScore alone: above 75
\* the title is "systemic collapse convergence", above 40 and up to 75
\* "structural fragility alert", up to 40 "stochastic stability"; every score
\* has exactly one of the three titles.
C23_HypothesisTier ==
    Returned =>
        /\ analysis.globalRiskScore > R(75) =>
             analysis.hypothesis.title = "SYSTEMIC COLLAPSE CONVERGENCE"
        /\ (R(40) < analysis.globalRiskScore /\ analysis.globalRiskScore <= R(75)) =>
             analysis.hypothesis.title = "STRUCTURAL FRAGILITY ALERT"
        /\ analysis.globalRiskScore <= R(40) =>
             analysis.hypothesis.title = "STOCHASTIC STABILITY"
        /\ analysis.hypothesis.title \in HypothesisTitles

\* an analysis whose score lies above 40 and not above 75 was returned
C23_Witness ==
    /\ Returned
    /\ R(40) < analysis.globalRiskScore
    /\ analysis.globalRiskScore <= R(75)
    /\ analysis.hypothesis.title = "STRUCTURAL FRAGILITY ALERT"

EconomicSignals ==
    {heap[signals[i]] : i \in {j \in 1..Len(signals) : heap[signals[j]].id = "market-fracture"}}

\* |change| of a record, 0 when it has no change
AbsChangeOf(q) == IF "change" \in DOMAIN q THEN (IF q.change < 0 THEN -q.change ELSE q.change) ELSE 0

\* the mean |change| over the markets, 0 when there are none
MarketChangeOf(d) ==
    IF d.markets = <<>> THEN 0
    ELSE SumSeq([i \in 1..Len(d.markets) |-> AbsChangeOf(d.markets[i])]) \div Len(d.markets)

\* the number of sectors with |change| > 3
SectorDivergenceOf(d) ==
    Cardinality({i \in 1..Len(d.sectors) : AbsChangeOf(d.sectors[i]) > R(3)})

\* some indicator named id has a field f whose value satisfies the test
IndicatorAbove(d, id, f, bound) ==
    \E i \in 1..Len(d.economic) :
       /\ "id" \in DOMAIN d.economic[i] /\ d.economic[i].id = id
       /\ f \in DOMAIN d.economic[i] /\ d.economic[i][f] > bound

IndicatorBelow(d, id, f, bound) ==
    \E i \in 1..Len(d.economic) :
       /\ "id" \in DOMAIN d.economic[i] /\ d.economic[i].id = id
       /\ f \in DOMAIN d.economic[i] /\ d.economic[i][f] < bound

\* 20 if VIX > 25, plus 15 if the 10Y-2Y spread < 0, plus 10 if the
\* unemployment delta > 0.2
EconomicRiskOf(d) ==
    (IF IndicatorAbove(d, "VIXCLS", "value", R(25)) THEN 20 ELSE 0)
    + (IF IndicatorBelow(d, "T10Y2Y", "value", 0) THEN 15 ELSE 0)
    + (IF IndicatorAbove(d, "UNRATE", "change", 200) THEN 10 ELSE 0)

\* marketChange x 25 + sectorDivergence x 10 + economicRisk
EconomicSeverityOf(d) ==
    MarketChangeOf(d) * 25 + R(SectorDivergenceOf(d) * 10) + R(EconomicRiskOf(d))

RuleIds ==
    <<"geopolitical-clash", "market-fracture", "sentiment-shock", "social-unrest",
      "environmental-stress", "infrastructure-disruption", "narrative-stress">>

\* the firing condition of rule k, read on the categories of that rule alone
RuleFires(k, d) ==
    CASE k = 1 -> MilActivityOf(d) > 10 \/ PredictionStressOf(d) > 2
      [] k = 2 -> \/ MarketChangeOf(d) > 1200
                  \/ SectorDivergenceOf(d) > 2
                  \/ EconomicRiskOf(d) > 10
      [] k = 3 -> \/ \E i \in 1..Len(d.commodities) :
                        /\ d.commodities[i].symbol = "CL=F"
                        /\ "change" \in DOMAIN d.commodities[i]
                        /\ d.commodities[i].change > R(3)
                  \/ \E i \in 1..Len(d.commodities) :
                        /\ d.commodities[i].symbol = "GC=F"
                        /\ "change" \in DOMAIN d.commodities[i]
                        /\ d.commodities[i].change > 1500
                  \/ Cardinality({i \in 1..Len(d.crypto) : AbsChangeOf(d.crypto[i]) > R(10)}) > 1
      [] k = 4 -> calculateMartingaleRisk(
                      [i \in 1..Len(d.protests) |->
                          IF "fatalities" \in DOMAIN d.protests[i]
                          THEN R(d.protests[i].fatalities * 5) ELSE 0],
                      DefaultDecay) > R(20)
      [] k = 5 -> \/ \E i \in 1..Len(d.earthquakes) : d.earthquakes[i].magnitude > R(5)
                  \/ Len(d.weather) > 10
      [] k = 6 -> \E i \in 1..Len(d.outages) :
                     /\ "severity" \in DOMAIN d.outages[i]
                     /\ d.outages[i].severity \in {"total", "major"}
      [] k = 7 -> SumSeq([i \in 1..Len(d.alertCounts) |->
                            IF "alertCount" \in DOMAIN d.alertCounts[i]
                            THEN d.alertCounts[i].alertCount ELSE 0]) > 10

\* the positions of the extracted array that hold the signal of rule k
EmittedBy(k) == {i \in 1..Len(signals) : heap[signals[i]].id = RuleIds[k]}

\* C26: each of the seven extraction rules emits at most one signal per call:
\* extractSignals returns at most 7 signals with pairwise distinct ids, and a
\* rule emits its signal exactly when its own condition holds, whether or not
\* any other rule fired.
C26_RulesIndependent ==
    Extracted =>
        /\ Len(signals) <= 7
        /\ \A k \in 1..7 : Cardinality(EmittedBy(k)) <= 1
        /\ \A i, j \in 1..Len(signals) :
             i # j => heap[signals[i]].id # heap[signals[j]].id
        /\ \A i \in 1..Len(signals) : \E k \in 1..7 : i \in EmittedBy(k)
        /\ \A k \in 1..7 : EmittedBy(k) # {} <=> RuleFires(k, data)

\* the seven rules fired in one call
C26_Witness ==
    /\ pc = "extracted"
    /\ Len(signals) = 7
    /\ \A k \in 1..7 : RuleFires(k, data) /\ Cardinality(EmittedBy(k)) = 1

\* C27: analyzeBlackSwans returns at most one narrative: all signals of one
\* call carry the same timestamp, the first anchor collects every signal, all
\* signals share one clusterId, and narratives.length is 0 when there are no
\* signals and 1 otherwise.
C27_OneNarrative ==
    pc \in {"clustered", "scored", "returned"} =>
        /\ Len(narratives) <= 1
        /\ Len(narratives) = (IF signals = <<>> THEN 0 ELSE 1)
        /\ \A i, j \in 1..Len(signals) :
             /\ heap[signals[i]].timestamp = heap[signals[j]].timestamp
             /\ heap[signals[i]].clusterId = heap[signals[j]].clusterId
        /\ \A i \in 1..Len(signals) :
             /\ heap[signals[i]].clusterId = <<narratives[1].id>>
             /\ \E m \in 1..Len(narratives[1].signals) :
                  narratives[1].signals[m] = signals[i]
        /\ Returned =>
             /\ Len(analysis.narratives) = (IF analysis.signals = <<>> THEN 0 ELSE 1)
             /\ \A i, j \in 1..Len(analysis.signals) :
                  ReturnedSignal(i).clusterId = ReturnedSignal(j).clusterId

\* signals of seven different types were returned in one narrative
C27_Witness ==
    /\ Returned
    /\ Len(analysis.signals) = 7
    /\ Cardinality({ReturnedSignal(i).type : i \in 1..7}) >= 6
    /\ Len(analysis.narratives) = 1
    /\ Len(analysis.narratives[1].signals) = 7

\* C28: highRiskRegions is empty in every Analysis that analyzeBlackSwans
\* returns, because no extraction rule gives its signal a location.
C28_NoHighRiskRegions ==
    /\ Returned => analysis.highRiskRegions = <<>>
    /\ \A r \in DOMAIN heap : pc \in {"extracted", "clustered", "scored", "returned"} =>
         heap[r].location = <<>>

\* an analysis with a signal of severity above 30 was returned without regions
C28_Witness ==
    /\ Returned
    /\ \E i \in 1..Len(analysis.signals) :
         ReturnedSignal(i).severity > R(30) /\ ReturnedSignal(i).location = <<>>
    /\ analysis.highRiskRegions = <<>>

\* the number of children of the cube group of the given kinds
ChildCount(inst, kinds) ==
    Cardinality({i \in 1..Len(inst.children) : inst.children[i].kind \in kinds})

\* field f of the data, empty when the data has no such field
FieldOf(d, f) == IF f \in DOMAIN d THEN d[f] ELSE <<>>

\* the pairs of hotspots that both have an intensity above 0.5
HighPairs(d) ==
    {p \in (1..Len(FieldOf(d, "hotspots"))) \X (1..Len(FieldOf(d, "hotspots"))) :
        /\ p[1] < p[2]
        /\ d.hotspots[p[1]].intensity > 500
        /\ d.hotspots[p[2]].intensity > 500}

\* the children of the cube group are those the claim lists for data d
ChildrenListedFor(inst, d) ==
    /\ ChildCount(inst, {"wireframe"}) = 2
    /\ ChildCount(inst, {"sprite"}) = (IF FieldOf(d, "labels") # <<>> THEN 3 ELSE 0)
    /\ ChildCount(inst, {"sphere", "glow"}) = 2 * Len(FieldOf(d, "hotspots"))
    /\ ChildCount(inst, {"plane"}) = (IF Len(FieldOf(d, "correlationMatrix")) >= 3 THEN 3 ELSE 0)
    /\ ChildCount(inst, {"line"}) = Cardinality(HighPairs(d))
    /\ ChildCount(inst, {"wireframe", "sprite", "sphere", "glow", "plane", "line"})
         = Len(inst.children)

\* a step of the cube: afterwards the children are those of the latest data,
\* and an updateData with the data of the call before keeps the child count
UpdateReplaces ==
    (pc' = "cube_live" /\ entry' # <<>>) =>
        /\ ChildrenListedFor(instance', entry')
        /\ (instance'.updates = instance.updates + 1 /\ entry' = entry) =>
              Len(instance'.children) = Len(instance.children)

\* C29: updateData replaces rather than accumulates: after any sequence of
\* updateData calls the children of the cube group are exactly those built
\* from the most recent data (2 wireframe boxes, 3 axis-label sprites when the
\* labels are non-empty, 2 meshes per hotspot, 3 planes when the matrix has at
\* least 3 rows, one line per pair of hotspots with both intensities > 0.5);
\* repeating a call with the same data does not change the child count.
C29_UpdateReplaces ==
    [][UpdateReplaces]_vars

\* a second updateData has run, on data with labels, three hotspots of which
\* two have a high intensity, and a matrix of three rows
C29_Witness ==
    /\ pc = "cube_live"
    /\ instance.updates >= 2
    /\ entry # <<>>
    /\ Len(FieldOf(entry, "hotspots")) = 3
    /\ ChildCount(instance, {"line"}) = 1
    /\ ChildCount(instance, {"plane"}) = 3
    /\ ChildCount(instance, {"sprite"}) = 3
    /\ Len(instance.children) = 15

\* C30: after destroy() the mousemove listener on the container and the
\* resize listener on window that the constructor registered are no longer
\* registered, and no onMouseMove or onResize of the destroyed instance runs
\* on a later event.
C30_ListenersRemoved ==
    (pc = "cube_live" /\ instance.destroyed) =>
        /\ instance.containerListeners = {}
        /\ instance.windowListeners = {}
        /\ ~instance.ranAfterDestroy

=============================================================================
